---- MODULE Spec2Model ----
(***************************************************************************)
(* Model of the automated-fix pipeline of src/main.py (_full_automate_fix  *)
(* and the helpers it calls).  One pipeline run is a state machine whose   *)
(* steps are the external commands the code issues through run_command;    *)
(* every command may succeed or exit non-zero (run_command then raises).   *)
(*                                                                         *)
(* Strings are modelled as sequences of tokens (dot-separated segments of  *)
(* a recipe id, words of the goal text); the substring tests of the code   *)
(* ("x in s") are contiguous-subsequence tests on tokens.                  *)
(*                                                                         *)
(* Spec is one pipeline run; SpecRecommend and SpecOptions follow the run  *)
(* up to the recommendation and to the run step over wider inputs;         *)
(* SpecJobs is the job tracker with the threads of concurrent jobs.        *)
(***************************************************************************)
EXTENDS Naturals, Sequences, FiniteSets

VARIABLES
    pc,             \* position of the run inside _full_automate_fix
    goal,           \* the goal argument (token sequence)
    checkout,       \* TRUE when the synced workspace holds the repository (.git found)
    ai_resp_raw,    \* what _ai_recommend_recipes returned (kind and recipe list)
    final_recipes,  \* the combined transformation list (sequence of recipe ids)
    i,              \* 1-based index of the loop iteration (enumerate index + 1)
    run_id,         \* run identifier extracted from the run output, 0 for None
    has_changes,    \* the has_changes flag of the current iteration
    git_logs,       \* the audit log (git_logs), append-only
    commits,        \* commit history of the local branch, oldest first; HEAD is the last
    dirty,          \* working tree differs from the index in non-excluded paths
    staged,         \* index differs from HEAD
    remote,         \* history of the branch on origin after the push (<<>>: not pushed)
    result,         \* the returned dict: status and error
    summary_doc,    \* MODERNE_FIX_SUMMARY.md: goal and listed recipe ids (<<>>: not written)
    options,        \* the options dict the current iteration passes to _run_recipe
    trace,          \* history: every external step invoked so far, with its outcome
    iterHead,       \* history: the commit history when the current iteration began
    jobs,           \* the jobs dict: job id -> record (status NONE: no such key)
    tpc,            \* position of the thread of each job inside background_task
    force,          \* the force_clean argument of each job
    local,          \* what func returned to background_task in each thread
    files,          \* descriptor files that exist under /tmp
    ws,             \* the workspace directory: whether it exists, whose checkouts it holds
    seen            \* what the last get_job_status call returned (type, status, payload)

\* the state of one pipeline run
pipeVars == <<pc, goal, checkout, ai_resp_raw, final_recipes, i, run_id, has_changes,
              git_logs, commits, dirty, staged, remote, result, summary_doc, options,
              trace, iterHead>>

\* the state shared by the job threads
jobVars == <<jobs, tpc, force, local, files, ws, seen>>

vars == <<pipeVars, jobVars>>

----------------------------------------------------------------------------
(* Bounds *)

\* longest recipe list the recommendation call returns
MaxAi == 2

\* most items of a raw options dict given to the normalization layer
MaxOpts == 2

\* most jobs submitted to the tracker
MaxJobs == 2

----------------------------------------------------------------------------
(* Strings as token sequences *)

\* tokens that begin with another token of the vocabulary: <<a, b>> says the
\* text of b starts with the text of a
Prefixes ==
    { <<"java", "javascript">>,
      <<"UpgradeJavaVersion", "UpgradeJavaVersionCustom">> }

\* the text of token a is the beginning of the text of token b
StartsTok(a, b) == a = b \/ <<a, b>> \in Prefixes

\* Python's "sub in s" on token sequences: the test is on characters, so the
\* last token of sub may match the beginning of a longer token of s
Contains(sub, s) ==
    \E k \in 0..(Len(s) - Len(sub)) :
        \A j \in 1..Len(sub) :
            IF j = Len(sub) THEN StartsTok(sub[j], s[k + j]) ELSE s[k + j] = sub[j]

\* str.lower() on one token
LowerTok(t) ==
    CASE t = "Java" -> "java"
      [] t = "JAVA" -> "java"
      [] t = "Upgrade" -> "upgrade"
      [] t = "Move" -> "move"
      [] OTHER -> t

\* goal.lower()
Lower(s) == [k \in 1..Len(s) |-> LowerTok(s[k])]

UpgradeJavaVersionId == <<"org", "openrewrite", "java", "migrate", "UpgradeJavaVersion">>
ChangeJavaVersionId == <<"org", "openrewrite", "maven", "ChangeJavaVersion">>
UpgradeParentVersionId == <<"org", "openrewrite", "maven", "UpgradeParentVersion">>

\* the redundant_list of the apply loop
redundant_list ==
    { <<"io", "moderne", "devcenter", "JavaVersionUpgrade">>,
      <<"io", "moderne", "devcenter", "LibraryUpgrade">>,
      ChangeJavaVersionId }

\* recipe ids the recommendation call may return
RecipeIds == {UpgradeJavaVersionId, ChangeJavaVersionId, UpgradeParentVersionId}

\* goals given to the pipeline
Goals == { <<"Upgrade", "to", "Java", "17">>, <<"fix", "logging">> }

\* a recipe id of a third party whose class name begins with UpgradeJavaVersion
CustomUpgradeId == <<"com", "acme", "UpgradeJavaVersionCustom">>

\* the wider inputs of the recommendation step taken alone
RecipeIdsWide == RecipeIds \cup {CustomUpgradeId}

GoalsWide ==
    Goals \cup
    { <<"upgrade", "to", "Java", "17">>,
      <<"Move", "to", "JAVA", "21">>,
      <<"migrate", "java">>,
      <<"Java", "21", "not", "17">>,
      <<"bump", "to", "17">>,
      <<"fix", "javascript">> }

\* a recipe object: id and options.  A dict is the sequence of its items
\* <<key, value>> in insertion order, with distinct keys; a key is the sequence
\* of its words ("groupIdPattern" is <<"groupId", "Pattern">>)
Recipe(id, r_options) == [id |-> id, options |-> r_options]

\* a dict of one item
OneItem(k, v) == << <<k, v>> >>

\* the options the prompt asks the model to give for a recipe id
AiOptions(id) ==
    IF id = UpgradeJavaVersionId THEN OneItem(<<"version">>, "17")
    ELSE IF id = UpgradeParentVersionId THEN OneItem(<<"newVersion">>, "3.2.0")
    ELSE OneItem(<<"version">>, "17")

AiRecipes == { Recipe(id, AiOptions(id)) : id \in RecipeIds }

\* recipe lists of the model's response, in the order given
AiLists == UNION { [1..n -> AiRecipes] : n \in 0..MaxAi }

\* what _ai_recommend_recipes can give back:
\*   raise    the call raised (catalog export failed, the API call failed)
\*   nokey    no API key: the fallback '{"recipes": []}'
\*   garbage  text that json.loads rejects
\*   nondict  JSON that is not an object (ai_data.get raises inside the try)
\*   json     a JSON object with a "recipes" list
AiResponses ==
    { [kind |-> k, recipes |-> <<>>] : k \in {"raise", "nokey", "garbage", "nondict"} }
    \cup { [kind |-> "json", recipes |-> l] : l \in AiLists }

AiRecipesWide == { Recipe(id, AiOptions(id)) : id \in RecipeIdsWide }

AiListsWide == UNION { [1..n -> AiRecipesWide] : n \in 0..MaxAi }

AiResponsesWide ==
    { [kind |-> k, recipes |-> <<>>] : k \in {"raise", "nokey", "garbage", "nondict"} }
    \cup { [kind |-> "json", recipes |-> l] : l \in AiListsWide }

UpgradeDependencyVersionId == <<"org", "openrewrite", "maven", "UpgradeDependencyVersion">>
GradleUpgradeDependencyVersionId ==
    <<"org", "openrewrite", "gradle", "UpgradeDependencyVersion">>

\* recipe ids given to the normalization layer
OptionIds ==
    { UpgradeJavaVersionId, ChangeJavaVersionId, UpgradeParentVersionId,
      UpgradeDependencyVersionId, GradleUpgradeDependencyVersionId }

\* option keys the model's response may use
OptionKeys ==
    { <<"version">>, <<"newVersion">>, <<"artifactId">>, <<"maximumUpgradeDelta">>,
      <<"groupId", "Pattern">>, <<"file", "Pattern", "Exclude", "Pattern">> }

OptionValues == {"17", "major"}

OptionItems == OptionKeys \X OptionValues

\* raw option dicts: items in insertion order, no key twice
RawOptions ==
    { d \in UNION { [1..n -> OptionItems] : n \in 0..MaxOpts } :
        \A a, b \in DOMAIN d : a # b => d[a][1] # d[b][1] }

\* responses that recommend one recipe with a raw options dict
OptionResponses ==
    { [kind |-> "json", recipes |-> <<Recipe(id, d)>>] : id \in OptionIds, d \in RawOptions }

----------------------------------------------------------------------------
(* Helpers *)

Ev(op, idx, ok, chg) == [op |-> op, i |-> idx, ok |-> ok, chg |-> chg]

Entry(tag, arg) == [tag |-> tag, arg |-> arg]

BaseCommit == [kind |-> "base", i |-> 0, id |-> <<>>]

NoResult == [status |-> "NONE", error |-> <<>>]

\* the options name before the first iteration binds it: a mapping of no key
NoOptions == [k \in {} |-> ""]

\* the outer except block: FAILURE entry, ERROR result.  (The entry is
\* appended unless the error text already occurs in a log entry; the logs
\* quote only errors of mod run and of the rebuild, which are caught, so the
\* text of an error that reaches this block is never in them.)
Abort(cmd) ==
    /\ pc' = "done"
    /\ git_logs' = Append(git_logs, Entry("FAILURE", cmd))
    /\ result' = [status |-> "ERROR", error |-> cmd]

\* the loop's "continue" (and the normal end of an iteration)
Continue ==
    /\ pc' = "loop"
    /\ i' = i + 1

\* the state when _full_automate_fix is entered with a goal of G
InitWith(G) ==
    /\ pc = "sync"
    /\ goal \in G
    /\ checkout = FALSE
    /\ ai_resp_raw = [kind |-> "none", recipes |-> <<>>]
    /\ final_recipes = <<>>
    /\ i = 1
    /\ run_id = 0
    /\ has_changes = FALSE
    /\ git_logs = <<>>
    /\ commits = <<BaseCommit>>
    /\ dirty = FALSE
    /\ staged = FALSE
    /\ remote = <<>>
    /\ result = NoResult
    /\ summary_doc = <<>>
    /\ options = NoOptions
    /\ trace = <<>>
    /\ iterHead = <<BaseCommit>>
    /\ jobs = [j \in 1..MaxJobs |->
                  [status |-> "NONE", type |-> "none", progress |-> "none",
                   error |-> "unset", result |-> "unset"]]
    /\ tpc = [j \in 1..MaxJobs |-> "idle"]
    /\ force = [j \in 1..MaxJobs |-> FALSE]
    /\ local = [j \in 1..MaxJobs |-> "none"]
    /\ files = {}
    /\ ws = [exists |-> FALSE, repos |-> {}]
    /\ seen = [type |-> "none", status |-> "NONE", error |-> "unset", result |-> "unset"]

Init == InitWith(Goals)

----------------------------------------------------------------------------
(* Steps 1-3: sync, branch and identity, initial build *)

\* Step 1: _sync_repo; the sync may leave the repository in the workspace or not
Sync ==
    /\ pc = "sync"
    /\ \/ /\ \E found \in BOOLEAN :
                /\ checkout' = found
                /\ trace' = Append(trace, Ev("sync", 0, TRUE, found))
          /\ git_logs' = Append(git_logs, Entry("CMD", <<"mod", "git", "sync">>))
          /\ pc' = "locate"
          /\ UNCHANGED result
       \/ /\ trace' = Append(trace, Ev("sync", 0, FALSE, FALSE))
          /\ Abort(<<"mod", "git", "sync">>)
          /\ UNCHANGED checkout
    /\ UNCHANGED <<goal, ai_resp_raw, final_recipes, i, run_id, has_changes,
                   commits, dirty, staged, remote, summary_doc, iterHead>>
    /\ UNCHANGED options
    /\ UNCHANGED jobVars

\* the os.walk search for the checkout; "Repo not found" raises
Locate ==
    /\ pc = "locate"
    /\ \/ /\ checkout
          /\ trace' = Append(trace, Ev("locate", 0, TRUE, FALSE))
          /\ pc' = "checkout"
          /\ UNCHANGED <<git_logs, result>>
       \/ /\ ~checkout
          /\ trace' = Append(trace, Ev("locate", 0, FALSE, FALSE))
          /\ Abort(<<"Repo", "not", "found">>)
    /\ UNCHANGED <<goal, checkout, ai_resp_raw, final_recipes, i, run_id, has_changes,
                   commits, dirty, staged, remote, summary_doc, iterHead>>
    /\ UNCHANGED options
    /\ UNCHANGED jobVars

\* a command of the straight-line part: on success log it and go on, else abort
Fatal(at, op, cmd, next) ==
    /\ pc = at
    /\ \/ /\ trace' = Append(trace, Ev(op, 0, TRUE, FALSE))
          /\ git_logs' = Append(git_logs, Entry("CMD", cmd))
          /\ pc' = next
          /\ UNCHANGED result
       \/ /\ trace' = Append(trace, Ev(op, 0, FALSE, FALSE))
          /\ Abort(cmd)

\* Step 2: mod git checkout -B <repo> <branch_name>
Checkout ==
    /\ Fatal("checkout", "checkout", <<"mod", "git", "checkout">>, "config_name")
    /\ UNCHANGED <<goal, checkout, ai_resp_raw, final_recipes, i, run_id, has_changes,
                   commits, dirty, staged, remote, summary_doc, iterHead>>
    /\ UNCHANGED options
    /\ UNCHANGED jobVars

ConfigName ==
    /\ Fatal("config_name", "config", <<"git", "config", "user.name">>, "config_email")
    /\ UNCHANGED <<goal, checkout, ai_resp_raw, final_recipes, i, run_id, has_changes,
                   commits, dirty, staged, remote, summary_doc, iterHead>>
    /\ UNCHANGED options
    /\ UNCHANGED jobVars

ConfigEmail ==
    /\ Fatal("config_email", "config", <<"git", "config", "user.email">>, "build")
    /\ UNCHANGED <<goal, checkout, ai_resp_raw, final_recipes, i, run_id, has_changes,
                   commits, dirty, staged, remote, summary_doc, iterHead>>
    /\ UNCHANGED options
    /\ UNCHANGED jobVars

\* mutant: a failing initial build is logged and the run goes on
InitialBuildLenient ==
    /\ pc = "build"
    /\ \E ok \in BOOLEAN :
          /\ trace' = Append(trace, Ev("build0", 0, ok, FALSE))
          /\ git_logs' = Append(git_logs, Entry("CMD", <<"mod", "build">>))
    /\ pc' = "recommend"
    /\ UNCHANGED <<goal, checkout, ai_resp_raw, final_recipes, i, run_id, has_changes,
                   commits, dirty, staged, remote, result, summary_doc, iterHead>>
    /\ UNCHANGED options
    /\ UNCHANGED jobVars

\* Step 3: the initial _build_lst
InitialBuild ==
    /\ Fatal("build", "build0", <<"mod", "build">>, "recommend")
    /\ UNCHANGED <<goal, checkout, ai_resp_raw, final_recipes, i, run_id, has_changes,
                   commits, dirty, staged, remote, summary_doc, iterHead>>
    /\ UNCHANGED options
    /\ UNCHANGED jobVars

----------------------------------------------------------------------------
(* Steps 4-5: analyze, recommend, fallback injection *)

\* ai_recipes after the json.loads try block
ParseRecipes(resp) == IF resp.kind = "json" THEN resp.recipes ELSE <<>>

\* the java_version inferred from the goal text
JavaVersion(goal_lower) ==
    IF Contains(<<"java">>, goal_lower) /\ Contains(<<"17">>, goal_lower) THEN "17"
    ELSE IF Contains(<<"java">>, goal_lower) /\ Contains(<<"21">>, goal_lower) THEN "21"
    ELSE "11"

\* any("UpgradeJavaVersion" in r["id"] for r in ai_recipes)
HasJavaUpgrade(ai_recipes) ==
    \E k \in DOMAIN ai_recipes : Contains(<<"UpgradeJavaVersion">>, ai_recipes[k].id)

\* mutant: the injected recipe is put behind the AI recommended ones
FinalRecipesAppended(g, ai_recipes) ==
    LET goal_lower == Lower(g)
        injected ==
            IF Contains(<<"java">>, goal_lower) /\ ~HasJavaUpgrade(ai_recipes)
            THEN << Recipe(UpgradeJavaVersionId,
                           OneItem(<<"version">>, JavaVersion(goal_lower))) >>
            ELSE <<>>
    IN  ai_recipes \o injected

\* the injected safety recipes, then the AI recommended ones
FinalRecipes(g, ai_recipes) ==
    LET goal_lower == Lower(g)
        injected ==
            IF Contains(<<"java">>, goal_lower) /\ ~HasJavaUpgrade(ai_recipes)
            THEN << Recipe(UpgradeJavaVersionId,
                           OneItem(<<"version">>, JavaVersion(goal_lower))) >>
            ELSE <<>>
    IN  injected \o ai_recipes

\* Steps 4 and 5: the recommendation call, the parse, the injection and the
\* empty-list check (the pom.xml read of step 4 only feeds the prompt)
RecommendWith(responses) ==
    /\ pc = "recommend"
    /\ \E resp \in responses :
        /\ ai_resp_raw' = resp
        /\ \/ /\ resp.kind = "raise"
              /\ trace' = Append(trace, Ev("recommend", 0, FALSE, FALSE))
              /\ Abort(<<"ai_recommend">>)
              /\ UNCHANGED final_recipes
           \/ /\ resp.kind # "raise"
              /\ LET ai_recipes == ParseRecipes(resp)
                     final == FinalRecipes(goal, ai_recipes)
                     logged == Append(git_logs, Entry("CMD", <<"ai_recommend">>))
                     noted == IF Len(final) > Len(ai_recipes)
                              THEN Append(logged, Entry("INJECTED", UpgradeJavaVersionId))
                              ELSE logged
                     called == Append(trace, Ev("recommend", 0, TRUE,
                                                resp.kind \in {"json", "nokey"}))
                 IN  /\ final_recipes' = final
                     /\ \/ /\ final = <<>>
                           /\ trace' = Append(called, Ev("select", 0, FALSE, FALSE))
                           /\ pc' = "done"
                           /\ git_logs' = Append(noted, Entry("FAILURE", <<"no", "recipes">>))
                           /\ result' = [status |-> "ERROR", error |-> <<"no", "recipes">>]
                        \/ /\ final # <<>>
                           /\ trace' = called
                           /\ pc' = "loop"
                           /\ git_logs' = noted
                           /\ UNCHANGED result
    /\ UNCHANGED <<goal, checkout, i, run_id, has_changes,
                   commits, dirty, staged, remote, summary_doc, iterHead>>
    /\ UNCHANGED options
    /\ UNCHANGED jobVars

Recommend == RecommendWith(AiResponses)

\* the recommendation step over the wider ids
RecommendWide == RecommendWith(AiResponsesWide)

----------------------------------------------------------------------------
(* Step 6: the apply loop *)

r_id == final_recipes[i].id

\* mutant: only the head of the list is looked at for the standard upgrade
has_standard_upgrade_first == final_recipes[1].id = UpgradeJavaVersionId

\* any(rr["id"] == "org.openrewrite.java.migrate.UpgradeJavaVersion" for rr in final_recipes)
has_standard_upgrade ==
    \E k \in DOMAIN final_recipes : final_recipes[k].id = UpgradeJavaVersionId

\* the for statement and the redundancy filter
LoopHead ==
    /\ pc = "loop"
    /\ \/ /\ i > Len(final_recipes)
          /\ pc' = "summary"
          /\ UNCHANGED <<i, git_logs, iterHead>>
       \/ /\ i <= Len(final_recipes)
          /\ has_standard_upgrade /\ r_id \in redundant_list
          /\ git_logs' = Append(git_logs, Entry("FILTERED", r_id))
          /\ Continue
          /\ UNCHANGED iterHead
       \/ /\ i <= Len(final_recipes)
          /\ ~(has_standard_upgrade /\ r_id \in redundant_list)
          /\ pc' = "run"
          /\ iterHead' = commits
          /\ UNCHANGED <<i, git_logs>>
    /\ UNCHANGED <<goal, checkout, ai_resp_raw, final_recipes, run_id, has_changes,
                   commits, dirty, staged, remote, result, summary_doc, trace>>
    /\ UNCHANGED options
    /\ UNCHANGED jobVars

\* what the run output shows: a /run/<id>/fix.patch path, a search.patch mention
RunOutputs == [fix : BOOLEAN, search : BOOLEAN]

\* the global defaults every run starts from
DefaultOptions ==
    [k \in {<<"maximumUpgradeDelta">>, <<"overrideTransitive">>} |->
        IF k = <<"maximumUpgradeDelta">> THEN "minor" ELSE "true"]

\* d[k] = v on a dict held as a mapping
Put(d, k, v) == [x \in DOMAIN d \cup {k} |-> IF x = k THEN v ELSE d[x]]

\* d.update(e)
Update(d, e) == [x \in DOMAIN d \cup DOMAIN e |-> IF x \in DOMAIN e THEN e[x] ELSE d[x]]

\* k.endswith("Pattern")
EndsWithPattern(k) == Len(k) > 0 /\ k[Len(k)] = "Pattern"

IsNotPattern(t) == t # "Pattern"

\* k.replace("Pattern", ""): every occurrence goes
RemovePattern(k) == SelectSeq(k, IsNotPattern)

\* new_k of the normalization layer: rule 2 is tested after rule 1 and wins
NewKey(id, k) ==
    IF (Contains(<<"UpgradeParentVersion">>, id)
        \/ Contains(<<"UpgradeDependencyVersion">>, id)) /\ EndsWithPattern(k)
    THEN RemovePattern(k)
    ELSE IF Contains(<<"org", "openrewrite", "maven">>, id) /\ k = <<"version">>
    THEN <<"newVersion">>
    ELSE k

RECURSIVE NormOptions(_, _, _)
\* norm_options after the first n items of r_options
NormOptions(id, r_options, n) ==
    IF n = 0 THEN NoOptions
    ELSE Put(NormOptions(id, r_options, n - 1),
             NewKey(id, r_options[n][1]), r_options[n][2])

\* options as passed to _run_recipe: the defaults updated with norm_options
Options(id, r_options) ==
    Update(DefaultOptions, NormOptions(id, r_options, Len(r_options)))

\* mutant: a search.patch path is taken for a run id as well
HasRunIdLoose(out) == out.fix \/ out.search

\* re.search(r"/run/([A-Za-z0-9-]+)/fix\.patch", run_out) matched
HasRunId(out) == out.fix

\* mutant: the run call is outside the inner try, so its failure aborts the run
RunFatal ==
    /\ pc = "run"
    /\ \/ /\ trace' = Append(trace, Ev("run", i, FALSE, FALSE))
          /\ Abort(<<"mod", "run">>)
          /\ UNCHANGED <<i, run_id>>
       \/ \E out \in RunOutputs :
            /\ trace' = Append(trace, Ev("run", i, TRUE, out.fix))
            /\ LET logged == Append(git_logs, Entry("CMD", <<"mod", "run">> \o r_id))
               IN  IF HasRunId(out)
                   THEN /\ run_id' = i
                        /\ git_logs' = logged
                        /\ pc' = "apply"
                        /\ UNCHANGED i
                   ELSE /\ git_logs' = Append(logged,
                                Entry(IF out.search THEN "SKIPPED SEARCH"
                                      ELSE "SKIPPED NOCHANGE", r_id))
                        /\ run_id' = 0
                        /\ Continue
            /\ UNCHANGED result
    /\ UNCHANGED <<goal, checkout, ai_resp_raw, final_recipes, has_changes,
                   commits, dirty, staged, remote, summary_doc, iterHead>>
    /\ options' = Options(r_id, final_recipes[i].options)
    /\ UNCHANGED jobVars

\* _run_recipe, then the extraction of the run id from its output
Run ==
    /\ pc = "run"
    /\ \/ /\ trace' = Append(trace, Ev("run", i, FALSE, FALSE))
          /\ git_logs' = Append(git_logs, Entry("FAILED RUN", r_id))
          /\ Continue
          /\ UNCHANGED run_id
       \/ \E out \in RunOutputs :
            /\ trace' = Append(trace, Ev("run", i, TRUE, out.fix))
            /\ LET logged == Append(git_logs, Entry("CMD", <<"mod", "run">> \o r_id))
               IN  IF HasRunId(out)
                   THEN /\ run_id' = i
                        /\ git_logs' = logged
                        /\ pc' = "apply"
                        /\ UNCHANGED i
                   ELSE /\ git_logs' = Append(logged,
                                Entry(IF out.search THEN "SKIPPED SEARCH"
                                      ELSE "SKIPPED NOCHANGE", r_id))
                        /\ run_id' = 0
                        /\ Continue
    /\ UNCHANGED <<goal, checkout, ai_resp_raw, final_recipes, has_changes,
                   commits, dirty, staged, remote, result, summary_doc, iterHead>>
    /\ options' = Options(r_id, final_recipes[i].options)
    /\ UNCHANGED jobVars

\* mutant: the zero-repositories report is not recognised
ReportsZeroNever(n) == FALSE

\* "Applied patches to 0 repositories" in apply_out, for an output that
\* reports n repositories
ReportsZero(n) == n = 0

\* mod git apply --recipe-run <run_id> <repo_path>
Apply ==
    /\ pc = "apply"
    /\ \/ /\ trace' = Append(trace, Ev("apply", i, FALSE, FALSE))
          /\ Abort(<<"mod", "git", "apply">>)
          /\ UNCHANGED <<i, dirty>>
       \/ \E n \in 0..1 :
            /\ trace' = Append(trace, Ev("apply", i, TRUE, n > 0))
            /\ LET logged == Append(git_logs, Entry("CMD", <<"mod", "git", "apply">>))
               IN  IF ReportsZero(n)
                   THEN /\ git_logs' = Append(logged, Entry("SKIPPED APPLY", r_id))
                        /\ Continue
                        /\ UNCHANGED dirty
                   ELSE /\ git_logs' = logged
                        /\ pc' = "stage"
                        /\ dirty' \in BOOLEAN
                        /\ UNCHANGED i
            /\ UNCHANGED result
    /\ UNCHANGED <<goal, checkout, ai_resp_raw, final_recipes, run_id, has_changes,
                   commits, staged, remote, summary_doc, iterHead>>
    /\ UNCHANGED options
    /\ UNCHANGED jobVars

\* git add -A with the excludes
Stage ==
    /\ pc = "stage"
    /\ \/ /\ trace' = Append(trace, Ev("stage", i, FALSE, FALSE))
          /\ Abort(<<"git", "add">>)
          /\ UNCHANGED <<dirty, staged>>
       \/ /\ trace' = Append(trace, Ev("stage", i, TRUE, dirty))
          /\ git_logs' = Append(git_logs, Entry("CMD", <<"git", "add">>))
          /\ staged' = dirty
          /\ dirty' = FALSE
          /\ pc' = "diff"
          /\ UNCHANGED result
    /\ UNCHANGED <<goal, checkout, ai_resp_raw, final_recipes, i, run_id, has_changes,
                   commits, remote, summary_doc, iterHead>>
    /\ UNCHANGED options
    /\ UNCHANGED jobVars

\* exit codes git diff-index --quiet HEAD can give: 1 when something is staged;
\* with nothing staged 0, or 1 when only excluded tracked paths differ from
\* HEAD; 128 on an error of git itself.  Every non-zero exit raises.
DiffExits == IF staged THEN {1, 128} ELSE {0, 1, 128}

\* the diff-index probe and the branch on has_changes
DiffIndex ==
    /\ pc = "diff"
    /\ \E rc \in DiffExits :
        /\ has_changes' = (rc # 0)
        /\ trace' = Append(trace, Ev("diff", i, rc = 0, rc # 0))
        /\ IF rc # 0
           THEN /\ pc' = "commit"
                /\ UNCHANGED <<i, git_logs>>
           ELSE /\ git_logs' = Append(git_logs, Entry("SKIPPED COMMIT", r_id))
                /\ Continue
    /\ UNCHANGED <<goal, checkout, ai_resp_raw, final_recipes, run_id,
                   commits, dirty, staged, remote, result, summary_doc, iterHead>>
    /\ UNCHANGED options
    /\ UNCHANGED jobVars

CodeCommit(idx, id) == [kind |-> "code", i |-> idx, id |-> id]

\* mutant: the loop goes on to the next transformation right after the commit,
\* without the rebuild
CommitNoVerify ==
    /\ pc = "commit"
    /\ \/ /\ staged
          /\ trace' = Append(trace, Ev("commit", i, TRUE, TRUE))
          /\ commits' = Append(commits, CodeCommit(i, r_id))
          /\ staged' = FALSE
          /\ git_logs' = git_logs \o << Entry("CMD", <<"git", "commit">>),
                                        Entry("APPLIED AND COMMITTED", r_id) >>
          /\ Continue
          /\ UNCHANGED result
       \/ /\ trace' = Append(trace, Ev("commit", i, FALSE, FALSE))
          /\ Abort(<<"git", "commit">>)
          /\ UNCHANGED <<i, commits, staged>>
    /\ UNCHANGED <<goal, checkout, ai_resp_raw, final_recipes, run_id, has_changes,
                   dirty, remote, summary_doc, iterHead>>
    /\ UNCHANGED options
    /\ UNCHANGED jobVars

\* mutant: the commit is made with --allow-empty, so it succeeds with nothing staged
CommitAllowEmpty ==
    /\ pc = "commit"
    /\ \/ /\ trace' = Append(trace, Ev("commit", i, TRUE, TRUE))
          /\ commits' = Append(commits, CodeCommit(i, r_id))
          /\ staged' = FALSE
          /\ git_logs' = git_logs \o << Entry("CMD", <<"git", "commit">>),
                                        Entry("APPLIED AND COMMITTED", r_id) >>
          /\ pc' = "rebuild"
          /\ UNCHANGED result
       \/ /\ trace' = Append(trace, Ev("commit", i, FALSE, FALSE))
          /\ Abort(<<"git", "commit">>)
          /\ UNCHANGED <<commits, staged>>
    /\ UNCHANGED <<goal, checkout, ai_resp_raw, final_recipes, i, run_id, has_changes,
                   dirty, remote, summary_doc, iterHead>>
    /\ UNCHANGED options
    /\ UNCHANGED jobVars

\* git commit -m "Moderne Auto-Fix: Applied <r_id>"; git refuses an empty commit
Commit ==
    /\ pc = "commit"
    /\ \/ /\ staged
          /\ trace' = Append(trace, Ev("commit", i, TRUE, TRUE))
          /\ commits' = Append(commits, CodeCommit(i, r_id))
          /\ staged' = FALSE
          /\ git_logs' = git_logs \o << Entry("CMD", <<"git", "commit">>),
                                        Entry("APPLIED AND COMMITTED", r_id) >>
          /\ pc' = "rebuild"
          /\ UNCHANGED result
       \/ /\ trace' = Append(trace, Ev("commit", i, FALSE, FALSE))
          /\ Abort(<<"git", "commit">>)
          /\ UNCHANGED <<commits, staged>>
    /\ UNCHANGED <<goal, checkout, ai_resp_raw, final_recipes, i, run_id, has_changes,
                   dirty, remote, summary_doc, iterHead>>
    /\ UNCHANGED options
    /\ UNCHANGED jobVars

\* mutant: a failed rebuild is logged but the commit is kept
RebuildNoRollback ==
    /\ pc = "rebuild"
    /\ \/ /\ trace' = Append(trace, Ev("build", i, TRUE, FALSE))
          /\ git_logs' = Append(git_logs, Entry("CMD", <<"mod", "build", "(refresh)">>))
          /\ Continue
       \/ /\ trace' = Append(trace, Ev("build", i, FALSE, FALSE))
          /\ git_logs' = Append(git_logs, Entry("FAILED BUILD", r_id))
          /\ Continue
    /\ UNCHANGED <<goal, checkout, ai_resp_raw, final_recipes, run_id, has_changes,
                   commits, dirty, staged, remote, result, summary_doc, iterHead>>
    /\ UNCHANGED options
    /\ UNCHANGED jobVars

\* the _build_lst refresh after the commit
Rebuild ==
    /\ pc = "rebuild"
    /\ \/ /\ trace' = Append(trace, Ev("build", i, TRUE, FALSE))
          /\ git_logs' = Append(git_logs, Entry("CMD", <<"mod", "build", "(refresh)">>))
          /\ Continue
       \/ /\ trace' = Append(trace, Ev("build", i, FALSE, FALSE))
          /\ git_logs' = Append(git_logs, Entry("FAILED BUILD", r_id))
          /\ pc' = "rollback"
          /\ UNCHANGED i
    /\ UNCHANGED <<goal, checkout, ai_resp_raw, final_recipes, run_id, has_changes,
                   commits, dirty, staged, remote, result, summary_doc, iterHead>>
    /\ UNCHANGED options
    /\ UNCHANGED jobVars

\* mutant: the reset names HEAD instead of HEAD~1
ResetHardToHead(history) == history

\* HEAD after git reset --hard HEAD~1
ResetHard(history) == SubSeq(history, 1, Len(history) - 1)

\* mutant: a failing reset is swallowed and the loop goes on
RollbackLenient ==
    /\ pc = "rollback"
    /\ \/ /\ trace' = Append(trace, Ev("reset", i, TRUE, TRUE))
          /\ commits' = ResetHard(commits)
          /\ dirty' = FALSE
          /\ staged' = FALSE
          /\ git_logs' = Append(git_logs, Entry("CMD", <<"git", "reset">>))
          /\ Continue
       \/ /\ trace' = Append(trace, Ev("reset", i, FALSE, FALSE))
          /\ git_logs' = Append(git_logs, Entry("FAILED RESET", r_id))
          /\ Continue
          /\ UNCHANGED <<commits, dirty, staged>>
    /\ UNCHANGED <<goal, checkout, ai_resp_raw, final_recipes, run_id, has_changes,
                   remote, result, summary_doc, iterHead>>
    /\ UNCHANGED options
    /\ UNCHANGED jobVars

\* the revert of the last commit inside the except handler of the rebuild
Rollback ==
    /\ pc = "rollback"
    /\ \/ /\ trace' = Append(trace, Ev("reset", i, TRUE, TRUE))
          /\ commits' = ResetHard(commits)
          /\ dirty' = FALSE
          /\ staged' = FALSE
          /\ git_logs' = Append(git_logs, Entry("CMD", <<"git", "reset">>))
          /\ Continue
          /\ UNCHANGED result
       \/ /\ trace' = Append(trace, Ev("reset", i, FALSE, FALSE))
          /\ Abort(<<"git", "reset">>)
          /\ UNCHANGED <<i, commits, dirty, staged>>
    /\ UNCHANGED <<goal, checkout, ai_resp_raw, final_recipes, run_id, has_changes,
                   remote, summary_doc, iterHead>>
    /\ UNCHANGED options
    /\ UNCHANGED jobVars

----------------------------------------------------------------------------
(* Steps 7-8: summary and push *)

\* mutant: the summary lists only the transformations whose commit is on the branch
SummaryIdsCommitted == [p \in 1..(Len(commits) - 1) |-> commits[p + 1].id]

\* the recipe ids the summary lists
SummaryIds == [k \in DOMAIN final_recipes |-> final_recipes[k].id]

\* Step 7: write MODERNE_FIX_SUMMARY.md
SummaryWrite ==
    /\ pc = "summary"
    /\ summary_doc' = <<goal, SummaryIds>>
    /\ pc' = "summary_add"
    /\ UNCHANGED <<goal, checkout, ai_resp_raw, final_recipes, i, run_id, has_changes,
                   git_logs, commits, dirty, staged, remote, result, trace, iterHead>>
    /\ UNCHANGED options
    /\ UNCHANGED jobVars

\* git add MODERNE_FIX_SUMMARY.md (the file was just written, so
\* os.path.exists(summary_path) holds in a run that owns its workspace)
SummaryAdd ==
    /\ pc = "summary_add"
    /\ \/ /\ trace' = Append(trace, Ev("summary_add", 0, TRUE, FALSE))
          /\ git_logs' = Append(git_logs, Entry("CMD", <<"git", "add", "summary">>))
          /\ pc' = "summary_commit"
          /\ UNCHANGED result
       \/ /\ trace' = Append(trace, Ev("summary_add", 0, FALSE, FALSE))
          /\ Abort(<<"git", "add", "summary">>)
    /\ UNCHANGED <<goal, checkout, ai_resp_raw, final_recipes, i, run_id, has_changes,
                   commits, dirty, staged, remote, summary_doc, iterHead>>
    /\ UNCHANGED options
    /\ UNCHANGED jobVars

SummaryCommitRecord == [kind |-> "summary", i |-> 0, id |-> <<>>]

\* git commit -m "Moderne Auto-Fix: Added summary documentation"
SummaryCommit ==
    /\ pc = "summary_commit"
    /\ \/ /\ trace' = Append(trace, Ev("summary_commit", 0, TRUE, TRUE))
          /\ commits' = Append(commits, SummaryCommitRecord)
          /\ git_logs' = Append(git_logs, Entry("CMD", <<"git", "commit", "summary">>))
          /\ pc' = "push"
          /\ UNCHANGED result
       \/ /\ trace' = Append(trace, Ev("summary_commit", 0, FALSE, FALSE))
          /\ Abort(<<"git", "commit", "summary">>)
          /\ UNCHANGED commits
    /\ UNCHANGED <<goal, checkout, ai_resp_raw, final_recipes, i, run_id, has_changes,
                   dirty, staged, remote, summary_doc, iterHead>>
    /\ UNCHANGED options
    /\ UNCHANGED jobVars

\* mutant: a failed push undoes the last local commit before the error is returned
PushUndoOnFailure ==
    /\ pc = "push"
    /\ \/ /\ trace' = Append(trace, Ev("push", 0, TRUE, FALSE))
          /\ remote' = commits
          /\ git_logs' = git_logs \o << Entry("CMD", <<"git", "push">>),
                                        Entry("PUSHED", <<>>) >>
          /\ result' = [status |-> "SUCCESS", error |-> <<>>]
          /\ pc' = "done"
          /\ UNCHANGED commits
       \/ /\ trace' = Append(trace, Ev("push", 0, FALSE, FALSE))
          /\ Abort(<<"git", "push">>)
          /\ commits' = ResetHard(commits)
          /\ UNCHANGED remote
    /\ UNCHANGED <<goal, checkout, ai_resp_raw, final_recipes, i, run_id, has_changes,
                   dirty, staged, summary_doc, iterHead>>
    /\ UNCHANGED options
    /\ UNCHANGED jobVars

\* Step 8: git push origin <branch_name>, then the SUCCESS result
Push ==
    /\ pc = "push"
    /\ \/ /\ trace' = Append(trace, Ev("push", 0, TRUE, FALSE))
          /\ remote' = commits
          /\ git_logs' = git_logs \o << Entry("CMD", <<"git", "push">>),
                                        Entry("PUSHED", <<>>) >>
          /\ result' = [status |-> "SUCCESS", error |-> <<>>]
          /\ pc' = "done"
       \/ /\ trace' = Append(trace, Ev("push", 0, FALSE, FALSE))
          /\ Abort(<<"git", "push">>)
          /\ UNCHANGED remote
    /\ UNCHANGED <<goal, checkout, ai_resp_raw, final_recipes, i, run_id, has_changes,
                   commits, dirty, staged, summary_doc, iterHead>>
    /\ UNCHANGED options
    /\ UNCHANGED jobVars

----------------------------------------------------------------------------

Next ==
    \/ Sync
    \/ Locate
    \/ Checkout
    \/ ConfigName
    \/ ConfigEmail
    \/ InitialBuild
    \/ Recommend
    \/ LoopHead
    \/ Run
    \/ Apply
    \/ Stage
    \/ DiffIndex
    \/ Commit
    \/ Rebuild
    \/ Rollback
    \/ SummaryWrite
    \/ SummaryAdd
    \/ SummaryCommit
    \/ Push

Spec == Init /\ [][Next]_vars

\* the normalization layer over the option inputs: a run with a goal that
\* injects nothing, whose recommendation is one recipe with a raw options
\* dict, followed up to the run step of that recipe
InitOptions == InitWith({<<"fix", "logging">>})

RecommendOptions == RecommendWith(OptionResponses)

NextOptions ==
    \/ Sync
    \/ Locate
    \/ Checkout
    \/ ConfigName
    \/ ConfigEmail
    \/ InitialBuild
    \/ RecommendOptions
    \/ LoopHead
    \/ Run

SpecOptions == InitOptions /\ [][NextOptions]_vars

\* steps 1-5 alone, over the wider goals and recipe ids
InitRecommend == InitWith(GoalsWide)

NextRecommend ==
    \/ Sync
    \/ Locate
    \/ Checkout
    \/ ConfigName
    \/ ConfigEmail
    \/ InitialBuild
    \/ RecommendWide

SpecRecommend == InitRecommend /\ [][NextRecommend]_vars

----------------------------------------------------------------------------
(* The job tracker and concurrent runs on the shared workspace.             *)
(* Every submitted job runs background_task on a thread of its own; the     *)
(* threads share the jobs dict, /tmp and the workspace directory, and a     *)
(* step of a thread is one access to one of them.  The pipeline between the *)
(* sync and the push is one step here; each job syncs a repository of its   *)
(* own, so a checkout in the workspace belongs to one job.                  *)

JobIds == 1..MaxJobs

JobTypes == {"full_automate", "build_lst"}

\* the state of the process before any job is submitted
InitJobs == InitWith({<<"fix", "logging">>})

\* jobs[job_id][key] = value
SetField(j, key, value) == jobs' = [jobs EXCEPT ![j] = [@ EXCEPT ![key] = value]]

\* a step of thread j that moves it to position next
Goto(j, next) == tpc' = [tpc EXCEPT ![j] = next]

\* func returned (or raised) with this outcome
Return(j, outcome) == local' = [local EXCEPT ![j] = outcome]

\* build_lst_async / full_automate_fix_async: the record is created PENDING
\* and the thread is started; uuid4 gives a key not in the dict
Submit(type, fc) ==
    /\ \E j \in JobIds :
        /\ jobs[j].status = "NONE"
        /\ \A k \in JobIds : k < j => jobs[k].status # "NONE"
        /\ jobs' = [jobs EXCEPT ![j] =
                        [status |-> "PENDING", type |-> type,
                         progress |-> IF type = "full_automate" THEN "Initializing"
                                      ELSE "none",
                         error |-> "unset", result |-> "unset"]]
        /\ tpc' = [tpc EXCEPT ![j] = "start"]
        /\ force' = [force EXCEPT ![j] = fc]
    /\ UNCHANGED <<local, files, ws, seen>>
    /\ UNCHANGED pipeVars

\* mutant: the task forgets to mark the job RUNNING
StartKeepsPending(j) ==
    /\ tpc[j] = "start"
    /\ Goto(j, IF jobs[j].type = "full_automate" THEN "progress" ELSE "build")
    /\ UNCHANGED <<jobs, force, local, files, ws, seen>>
    /\ UNCHANGED pipeVars

\* background_task: jobs[job_id]["status"] = "RUNNING"
Start(j) ==
    /\ tpc[j] = "start"
    /\ SetField(j, "status", "RUNNING")
    /\ Goto(j, IF jobs[j].type = "full_automate" THEN "progress" ELSE "build")
    /\ UNCHANGED <<force, local, files, ws, seen>>
    /\ UNCHANGED pipeVars

\* func = _build_lst: mod build returns its output or run_command raises
JobBuild(j) ==
    /\ tpc[j] = "build"
    /\ \E outcome \in {"text", "raised"} : Return(j, outcome)
    /\ Goto(j, "ret")
    /\ UNCHANGED <<jobs, force, files, ws, seen>>
    /\ UNCHANGED pipeVars

\* update_progress("Step 1/8: Syncing repository...")
JobProgress(j) ==
    /\ tpc[j] = "progress"
    /\ SetField(j, "progress", "Step 1/8")
    /\ Goto(j, "clean")
    /\ UNCHANGED <<force, local, files, ws, seen>>
    /\ UNCHANGED pipeVars

\* mutant: the clean removes only the checkout of the run itself
CleanOwnCheckout(j) ==
    /\ tpc[j] = "clean"
    /\ \/ /\ force[j] /\ ws.exists
          /\ \/ /\ ws' = [ws EXCEPT !.repos = @ \ {j}]
                /\ Goto(j, "mkdir")
                /\ UNCHANGED local
             \/ /\ Return(j, "ERROR")
                /\ Goto(j, "ret")
                /\ UNCHANGED ws
       \/ /\ ~(force[j] /\ ws.exists)
          /\ Goto(j, "mkdir")
          /\ UNCHANGED <<ws, local>>
    /\ UNCHANGED <<jobs, force, files, seen>>
    /\ UNCHANGED pipeVars

\* _sync_repo: if force_clean and os.path.exists(MODERNE_WORKSPACE): rm -rf
\* (a failing rm raises before the try: the pipeline returns ERROR)
Clean(j) ==
    /\ tpc[j] = "clean"
    /\ \/ /\ force[j] /\ ws.exists
          /\ \/ /\ ws' = [exists |-> FALSE, repos |-> {}]
                /\ Goto(j, "mkdir")
                /\ UNCHANGED local
             \/ /\ Return(j, "ERROR")
                /\ Goto(j, "ret")
                /\ UNCHANGED ws
       \/ /\ ~(force[j] /\ ws.exists)
          /\ Goto(j, "mkdir")
          /\ UNCHANGED <<ws, local>>
    /\ UNCHANGED <<jobs, force, files, seen>>
    /\ UNCHANGED pipeVars

\* os.makedirs(MODERNE_WORKSPACE, exist_ok=True)
Mkdir(j) ==
    /\ tpc[j] = "mkdir"
    /\ ws' = [ws EXCEPT !.exists = TRUE]
    /\ Goto(j, "write")
    /\ UNCHANGED <<jobs, force, local, files, seen>>
    /\ UNCHANGED pipeVars

\* mutant: every sync uses one descriptor path
TempCsvShared(token) == <<"/tmp/mcp_repos_", 0, ".csv">>

\* temp_csv = f"/tmp/mcp_repos_{session_id or uuid.uuid4()}.csv"
TempCsv(token) == <<"/tmp/mcp_repos_", token, ".csv">>

\* with open(temp_csv, "w") as f: ...
WriteCsv(j) ==
    /\ tpc[j] = "write"
    /\ files' = files \cup {TempCsv(j)}
    /\ Goto(j, "sync_cmd")
    /\ UNCHANGED <<jobs, force, local, ws, seen>>
    /\ UNCHANGED pipeVars

\* mod git sync csv --with-sources: the checkout appears, or the command fails
SyncCmd(j) ==
    /\ tpc[j] = "sync_cmd"
    /\ \/ /\ ws' = [exists |-> TRUE, repos |-> ws.repos \cup {j}]
          /\ Goto(j, "cleanup")
       \/ /\ Goto(j, "cleanup_raising")
          /\ UNCHANGED ws
    /\ UNCHANGED <<jobs, force, local, files, seen>>
    /\ UNCHANGED pipeVars

\* finally: if os.path.exists(temp_csv): os.remove(temp_csv); then the return
\* of _sync_repo, or the exception of the sync command reaches the outer
\* except of the pipeline, which returns the ERROR dict
Cleanup(j) ==
    /\ tpc[j] \in {"cleanup", "cleanup_raising"}
    /\ files' = files \ {TempCsv(j)}
    /\ IF tpc[j] = "cleanup"
       THEN Goto(j, "work") /\ UNCHANGED local
       ELSE Goto(j, "ret") /\ Return(j, "ERROR")
    /\ UNCHANGED <<jobs, force, ws, seen>>
    /\ UNCHANGED pipeVars

\* steps 2-7 of the pipeline, in the checkout of the job: without the
\* checkout "Repo not found" (or a command in the missing directory) raises
Work(j) ==
    /\ tpc[j] = "work"
    /\ \/ /\ j \in ws.repos
          /\ Goto(j, "push")
          /\ UNCHANGED local
       \/ /\ Return(j, "ERROR")
          /\ Goto(j, "ret")
    /\ UNCHANGED <<jobs, force, files, ws, seen>>
    /\ UNCHANGED pipeVars

\* step 8: git push in the checkout, update_progress, the SUCCESS dict
JobPush(j) ==
    /\ tpc[j] = "push"
    /\ \/ /\ j \in ws.repos
          /\ SetField(j, "progress", "Completed")
          /\ Return(j, "SUCCESS")
       \/ /\ Return(j, "ERROR")
          /\ UNCHANGED jobs
    /\ Goto(j, "ret")
    /\ UNCHANGED <<force, files, ws, seen>>
    /\ UNCHANGED pipeVars

\* mutant: the payload's status is not looked at
IsErrorResultNever(outcome) == FALSE

\* isinstance(result, dict) and result.get("status") == "ERROR"
IsErrorResult(outcome) == outcome = "ERROR"

\* mutant: background_task has no except clause, so an exception of func
\* ends the thread with the status left as it was
SetStatusNoExcept(j) ==
    /\ tpc[j] = "ret"
    /\ IF local[j] = "raised"
       THEN Goto(j, "done") /\ UNCHANGED jobs
       ELSE IF IsErrorResult(local[j])
       THEN SetField(j, "status", "FAILED") /\ Goto(j, "error")
       ELSE SetField(j, "status", "COMPLETED") /\ Goto(j, "result")
    /\ UNCHANGED <<force, local, files, ws, seen>>
    /\ UNCHANGED pipeVars

\* background_task after func: the status assignment of lines 90, 94 or 98
SetStatus(j) ==
    /\ tpc[j] = "ret"
    /\ IF local[j] = "raised"
       THEN SetField(j, "status", "FAILED") /\ Goto(j, "error_only")
       ELSE IF IsErrorResult(local[j])
       THEN SetField(j, "status", "FAILED") /\ Goto(j, "error")
       ELSE SetField(j, "status", "COMPLETED") /\ Goto(j, "result")
    /\ UNCHANGED <<force, local, files, ws, seen>>
    /\ UNCHANGED pipeVars

\* jobs[job_id]["error"] = ... (line 91, or line 99 in the except block)
SetError(j) ==
    /\ tpc[j] \in {"error", "error_only"}
    /\ SetField(j, "error", "set")
    /\ Goto(j, IF tpc[j] = "error" THEN "result" ELSE "done")
    /\ UNCHANGED <<force, local, files, ws, seen>>
    /\ UNCHANGED pipeVars

\* jobs[job_id]["result"] = result (line 92 or 95)
SetResult(j) ==
    /\ tpc[j] = "result"
    /\ SetField(j, "result", local[j])
    /\ Goto(j, "done")
    /\ UNCHANGED <<force, local, files, ws, seen>>
    /\ UNCHANGED pipeVars

\* get_job_status(job_id) called by a client while the threads run; for an
\* id that is no key it returns the not-found answer (status NONE here)
get_job_status(j) ==
    /\ seen' = [type |-> jobs[j].type, status |-> jobs[j].status,
                error |-> jobs[j].error, result |-> jobs[j].result]
    /\ UNCHANGED <<jobs, tpc, force, local, files, ws>>
    /\ UNCHANGED pipeVars

NextJobs ==
    \/ \E type \in JobTypes, fc \in BOOLEAN : Submit(type, fc)
    \/ \E j \in JobIds : Start(j)
    \/ \E j \in JobIds : JobBuild(j)
    \/ \E j \in JobIds : JobProgress(j)
    \/ \E j \in JobIds : Clean(j)
    \/ \E j \in JobIds : Mkdir(j)
    \/ \E j \in JobIds : WriteCsv(j)
    \/ \E j \in JobIds : SyncCmd(j)
    \/ \E j \in JobIds : Cleanup(j)
    \/ \E j \in JobIds : Work(j)
    \/ \E j \in JobIds : JobPush(j)
    \/ \E j \in JobIds : SetStatus(j)
    \/ \E j \in JobIds : SetError(j)
    \/ \E j \in JobIds : SetResult(j)
    \/ \E j \in JobIds : get_job_status(j)

SpecJobs == InitJobs /\ [][NextJobs]_vars

----------------------------------------------------------------------------
(* One job followed from its submission to its terminal status, with the    *)
(* pipeline in full: the thread of a full-automation job takes the steps of *)
(* _full_automate_fix one by one.  Other jobs reach this one only through   *)
(* the outcomes of its commands, which are free here.                       *)

InitLive == InitWith(Goals)

\* the one job is submitted, as a full automation or as a build, with the
\* force_clean default of the tool
SubmitOne ==
    /\ jobs[1].status = "NONE"
    /\ \E type \in JobTypes : Submit(type, TRUE)

\* the recommendations this run may get: any failure of the call or of the
\* parse, or a list of up to MaxAi recipes of one id, which is filtered as
\* redundant when the goal has the Java upgrade injected and is run otherwise
LiveResponses ==
    { resp \in AiResponses :
        \A k \in DOMAIN resp.recipes : resp.recipes[k].id = ChangeJavaVersionId }

RecommendLive == RecommendWith(LiveResponses)

\* a step of _full_automate_fix taken by the thread of job j, which has
\* entered the function (its first progress message is written)
PipelineStep(j) ==
    /\ tpc[j] = "clean"
    /\ pc # "done"
    /\ IF pc = "recommend" THEN RecommendLive ELSE Next

\* _full_automate_fix returns its SUCCESS or ERROR dict to background_task
\* (update_progress("Completed successfully") precedes the SUCCESS dict)
PipelineReturn(j) ==
    /\ tpc[j] = "clean"
    /\ pc = "done"
    /\ Return(j, result.status)
    /\ Goto(j, "ret")
    /\ IF result.status = "SUCCESS"
       THEN SetField(j, "progress", "Completed")
       ELSE UNCHANGED jobs
    /\ UNCHANGED <<force, files, ws, seen>>
    /\ UNCHANGED pipeVars

\* the steps of the thread of job j
ThreadStep(j) ==
    \/ Start(j)
    \/ JobBuild(j)
    \/ JobProgress(j)
    \/ PipelineStep(j)
    \/ PipelineReturn(j)
    \/ SetStatus(j)
    \/ SetError(j)
    \/ SetResult(j)

NextLive ==
    \/ SubmitOne
    \/ ThreadStep(1)

\* every command returns or fails and the started thread is scheduled: a
\* step of the thread that stays possible is taken
SpecLive == InitLive /\ [][NextLive]_vars /\ WF_vars(ThreadStep(1))

----------------------------------------------------------------------------
(* Reading the history *)

\* a step with this outcome was invoked for transformation k (0: outside the loop)
Step(op, k, ok, chg) == \E p \in DOMAIN trace : trace[p] = Ev(op, k, ok, chg)

\* the audit log holds this entry
Logged(tag, arg) == \E p \in DOMAIN git_logs : git_logs[p] = Entry(tag, arg)

\* the steps that follow a successful run inside one iteration
AfterRunOps == {"apply", "stage", "diff", "commit", "build", "reset"}

LastStep == trace[Len(trace)]

----------------------------------------------------------------------------
(* C1 *)

\* C1: Rollback correctness.  The commit of transformation N is made on the
\* HEAD recorded when its iteration began; whenever the rebuild after that
\* commit failed and the rollback has run, HEAD is again that recorded HEAD
\* (same history, hence same parent, and a clean tree and index), and the
\* audit log holds a FAILED BUILD entry naming transformation N's id.
C1_RollbackRestoresHead ==
    /\ pc = "commit" => commits = iterHead
    /\ (trace # <<>> /\ LastStep.op = "reset" /\ LastStep.ok) =>
          /\ Step("build", LastStep.i, FALSE, FALSE)
          /\ commits = iterHead
          /\ ~dirty /\ ~staged
          /\ Logged("FAILED BUILD", final_recipes[LastStep.i].id)

\* a rollback that restores a HEAD which is itself an earlier transformation's commit
C1_Witness ==
    /\ trace # <<>> /\ LastStep.op = "reset" /\ LastStep.ok
    /\ Len(commits) = 2
    /\ commits[2].kind = "code"
    /\ commits[2].i < LastStep.i

----------------------------------------------------------------------------
(* C2 *)

\* positions of the history after p at which a run step was invoked
RunsAfter(p) == { q \in DOMAIN trace : q > p /\ trace[q].op = "run" }

\* the first run step after position p; when none was invoked yet, the
\* position the next step will take
NextRunAfter(p) ==
    IF RunsAfter(p) = {} THEN Len(trace) + 1
    ELSE CHOOSE q \in RunsAfter(p) : \A r \in RunsAfter(p) : q <= r

\* C2: Every committed transformation is build-verified before the next one
\* is attempted.  Whenever a run step is about to start, for every commit made
\* earlier: before any later run step there was exactly one Representation
\* Builder invocation after that commit, it was the rebuild of that commit's
\* transformation, and if it failed the commit was discarded (a successful
\* reset before the later run step; the commit is not on the branch).
C2_VerifiedBeforeNextRun ==
    pc = "run" =>
        \A p \in DOMAIN trace :
            (trace[p].op = "commit" /\ trace[p].ok) =>
                LET q == NextRunAfter(p)
                    B == { b \in (p + 1)..(q - 1) : trace[b].op \in {"build", "build0"} }
                IN  /\ Cardinality(B) = 1
                    /\ \A b \in B :
                        /\ trace[b].op = "build"
                        /\ trace[b].i = trace[p].i
                        /\ ~trace[b].ok =>
                              /\ \E r \in (b + 1)..(q - 1) :
                                    trace[r] = Ev("reset", trace[p].i, TRUE, TRUE)
                              /\ \A c \in DOMAIN commits :
                                    commits[c] # CodeCommit(trace[p].i,
                                                            final_recipes[trace[p].i].id)

\* a run step about to start after one verified commit and one discarded commit
C2_Witness ==
    /\ pc = "run"
    /\ \E k \in DOMAIN final_recipes : Step("build", k, TRUE, FALSE)
    /\ \E k \in DOMAIN final_recipes :
          Step("build", k, FALSE, FALSE) /\ Step("reset", k, TRUE, TRUE)

----------------------------------------------------------------------------
(* C3 *)

\* transformation k produced a materialized, non-empty diff and passed the
\* post-apply rebuild
Verified(k) ==
    /\ Step("apply", k, TRUE, TRUE)
    /\ Step("stage", k, TRUE, TRUE)
    /\ Step("build", k, TRUE, FALSE)

VerifiedCount == Cardinality({ k \in DOMAIN final_recipes : Verified(k) })

\* commits the apply loop has made so far
CommitsMade == Cardinality({ p \in DOMAIN trace : trace[p].op = "commit" /\ trace[p].ok })

\* commits of the apply loop that are on the branch
CodeCommitsOnBranch == Cardinality({ c \in DOMAIN commits : commits[c].kind = "code" })

\* no commit is waiting for its rebuild or its rollback
Settled ==
    /\ pc \notin {"rebuild", "rollback"}
    /\ ~(trace # <<>> /\ LastStep.op = "reset" /\ ~LastStep.ok)

\* C3 as stated: the number of commits made by the apply loop never exceeds the
\* number of transformations that produced a non-empty diff and passed the
\* rebuild.  (The code commits first and verifies afterwards.)
C3_CommitsMadeNeverExceedVerified == CommitsMade <= VerifiedCount

\* C3 amended: whenever no commit is waiting for its rebuild or rollback, the
\* number of apply-loop commits on the branch does not exceed the number of
\* transformations that produced a materialized, non-empty diff and passed the
\* post-apply rebuild; while a commit waits it exceeds it by at most one.
C3_SurvivingCommitsVerified ==
    /\ Settled => CodeCommitsOnBranch <= VerifiedCount
    /\ CodeCommitsOnBranch <= VerifiedCount + 1

\* the loop finished with a verified commit on the branch and another rolled back
C3_Witness ==
    /\ pc = "summary"
    /\ CodeCommitsOnBranch = 1
    /\ CommitsMade = 2

----------------------------------------------------------------------------
(* C4 *)

RECURSIVE SurvivingUpTo(_)
\* the code commits of the transformations 1..n that staged a change and
\* whose rebuild succeeded, in list order
SurvivingUpTo(n) ==
    IF n = 0 THEN <<>>
    ELSE SurvivingUpTo(n - 1) \o
         (IF Step("stage", n, TRUE, TRUE) /\ Step("build", n, TRUE, FALSE)
          THEN << CodeCommit(n, final_recipes[n].id) >>
          ELSE <<>>)

\* the branch the run is meant to end with
ExpectedBranch ==
    <<BaseCommit>> \o SurvivingUpTo(Len(final_recipes)) \o <<SummaryCommitRecord>>

\* C4: When the pipeline reaches SUCCESS the pushed branch holds, on top of
\* the synced history, exactly one code commit for each transformation that
\* staged a change and whose rebuild succeeded, in list order, then the one
\* summary commit; it holds no commit of a transformation whose rebuild failed.
C4_PushedBranchOnSuccess ==
    result.status = "SUCCESS" =>
        /\ remote = ExpectedBranch
        /\ \A k \in DOMAIN final_recipes :
              Step("build", k, FALSE, FALSE) =>
                  \A c \in DOMAIN remote : ~(remote[c].kind = "code" /\ remote[c].i = k)

\* scenario C: three change-producing transformations, only the second breaks
\* the build; the branch has the commits of 1 and 3 and the summary commit
C4_Witness ==
    /\ result.status = "SUCCESS"
    /\ Len(final_recipes) = 3
    /\ \A k \in 1..3 : Step("commit", k, TRUE, TRUE)
    /\ Step("build", 1, TRUE, FALSE)
    /\ Step("build", 2, FALSE, FALSE)
    /\ Step("build", 3, TRUE, FALSE)
    /\ Len(remote) = 4
    /\ remote[2].i = 1 /\ remote[3].i = 3 /\ remote[4].kind = "summary"

----------------------------------------------------------------------------
(* C5 *)

\* the steps designated fatal: sync, checkout not found, branch and identity
\* setup, initial build, empty combined list
FatalOps == {"sync", "locate", "checkout", "config", "build0", "select"}

\* C5: A failure of a fatal step aborts the whole run.  The failed step is the
\* last step the run ever invokes (no transformation run, commit, summary or
\* push follows), nothing was committed, written or pushed, and the returned
\* result has status ERROR.
C5_FatalStepAborts ==
    \A p \in DOMAIN trace :
        (trace[p].op \in FatalOps /\ ~trace[p].ok) =>
            /\ p = Len(trace)
            /\ pc = "done"
            /\ result.status = "ERROR"
            /\ commits = <<BaseCommit>>
            /\ summary_doc = <<>>
            /\ remote = <<>>

\* the run ended on the empty combined list, every earlier step having passed
C5_Witness ==
    /\ pc = "done"
    /\ Step("build0", 0, TRUE, FALSE)
    /\ Step("select", 0, FALSE, FALSE)
    /\ result.status = "ERROR"

----------------------------------------------------------------------------
(* C6 *)

\* C6: A failure of the Recommend step (the call fails, or its response cannot
\* be parsed) is non-fatal: the run goes on to the injection and the empty-list
\* check, so it never ends with the recommendation failure as its error.
C6_RecommendFailureNonFatal ==
    ai_resp_raw.kind \in {"raise", "garbage", "nondict"} =>
        /\ ~(trace # <<>> /\ LastStep.op = "recommend" /\ pc = "done")
        /\ result.error # <<"ai_recommend">>

----------------------------------------------------------------------------
(* C7 *)

\* C7: When the run command fails for transformation k the log gets a FAILED
\* RUN entry naming it, no apply, stage, commit, rebuild or reset is invoked
\* for k, the loop moves to transformation k + 1, and the failure does not make
\* the result ERROR.
C7_FailedRunSkipped ==
    \A p \in DOMAIN trace :
        (trace[p].op = "run" /\ ~trace[p].ok) =>
            LET k == trace[p].i
            IN  /\ Logged("FAILED RUN", final_recipes[k].id)
                /\ \A q \in DOMAIN trace : trace[q].i = k => q = p
                /\ p < Len(trace) => trace[p + 1].i > k \/ trace[p + 1].op = "summary_add"
                /\ p = Len(trace) =>
                      /\ result.status # "ERROR"
                      /\ pc \in {"loop", "run", "summary", "summary_add"}
                      /\ i > k
                      /\ git_logs[Len(git_logs)].tag = "FAILED RUN" => i = k + 1

\* the first transformation failed to run, the second was committed, the run succeeded
C7_Witness ==
    /\ Step("run", 1, FALSE, FALSE)
    /\ Step("commit", 2, TRUE, TRUE)
    /\ result.status = "SUCCESS"

----------------------------------------------------------------------------
(* C8 *)

\* C8: When a run yields a run identifier but the apply reports 0 repositories
\* updated for transformation k, the log gets SKIPPED APPLY naming it, no stage,
\* commit, rebuild or reset is invoked for k, the loop moves on, and the run is
\* a SUCCESS once the summary and push steps complete.
C8_ZeroApplySkipped ==
    \A p \in DOMAIN trace :
        (trace[p] = Ev("apply", trace[p].i, TRUE, FALSE)) =>
            LET k == trace[p].i
            IN  /\ Step("run", k, TRUE, TRUE)
                /\ Logged("SKIPPED APPLY", final_recipes[k].id)
                /\ \A q \in DOMAIN trace :
                      trace[q].i = k => trace[q].op \in {"run", "apply"}
                /\ p < Len(trace) => trace[p + 1].i > k \/ trace[p + 1].op = "summary_add"
                /\ p = Len(trace) => result.status # "ERROR" /\ i > k
                /\ (Step("summary_commit", 0, TRUE, TRUE) /\ Step("push", 0, TRUE, FALSE))
                      => result.status = "SUCCESS"

\* an apply of 0 repositories, a later transformation committed, the run a SUCCESS
C8_Witness ==
    /\ Step("apply", 1, TRUE, FALSE)
    /\ Step("commit", 2, TRUE, TRUE)
    /\ result.status = "SUCCESS"
    /\ Len(remote) = 3

----------------------------------------------------------------------------
(* C9 *)

\* the run output of transformation k carries no run identifier
NoRunId(k) == Step("run", k, TRUE, FALSE)

\* the tree staged for transformation k equals the last commit
NothingStaged(k) == Step("stage", k, TRUE, FALSE)

\* C9: Idempotence of no-diff transformations.  For a transformation whose run
\* output has no run identifier, or whose staged tree equals the last commit,
\* no commit is made, the Representation Builder is not invoked, and while it
\* is the transformation last worked on the commit history is the one its
\* iteration began with.
C9_NoDiffLeavesHistory ==
    \A k \in DOMAIN final_recipes :
        (NoRunId(k) \/ NothingStaged(k)) =>
            /\ ~Step("commit", k, TRUE, TRUE)
            /\ \A q \in DOMAIN trace : ~(trace[q].i = k /\ trace[q].op \in {"build", "reset"})
            /\ LastStep.i = k => commits = iterHead
            /\ NoRunId(k) => \A q \in DOMAIN trace : trace[q].i = k => trace[q].op = "run"

\* after a commit of transformation 1, transformation 2 staged nothing and
\* transformation 3 had no run identifier
C9_Witness ==
    /\ Len(final_recipes) = 3
    /\ Step("commit", 1, TRUE, TRUE)
    /\ NothingStaged(2)
    /\ NoRunId(3)
    /\ LastStep.i = 3
    /\ Len(commits) = 2

----------------------------------------------------------------------------
(* C10 *)

\* transformation k was filtered out or its run step was invoked
Processed(k) ==
    \/ Logged("FILTERED", final_recipes[k].id)
    \/ \E q \in DOMAIN trace : trace[q].op = "run" /\ trace[q].i = k

\* C10: The branch is pushed at most once per run, only after every
\* transformation of the list has been processed and the summary has been
\* committed; if the push fails the result is ERROR, nothing is on the remote,
\* and the local branch still holds every commit made before.
C10_PushOnceAtEnd ==
    /\ Cardinality({ p \in DOMAIN trace : trace[p].op = "push" }) <= 1
    /\ \A p \in DOMAIN trace :
          trace[p].op = "push" =>
              /\ p = Len(trace)
              /\ i = Len(final_recipes) + 1
              /\ \A k \in DOMAIN final_recipes : Processed(k)
              /\ \E q \in 1..(p - 1) : trace[q] = Ev("summary_commit", 0, TRUE, TRUE)
              /\ commits = ExpectedBranch
              /\ ~trace[p].ok => result.status = "ERROR" /\ remote = <<>>
    /\ remote # <<>> => Step("push", 0, TRUE, FALSE)

\* a failed push after two code commits and the summary commit
C10_Witness ==
    /\ Step("push", 0, FALSE, FALSE)
    /\ result.status = "ERROR"
    /\ Len(commits) = 4

----------------------------------------------------------------------------
(* C11 *)

\* the combined list holds the fallback Java-version-upgrade transformation
HasFallbackUpgrade ==
    \E m \in DOMAIN final_recipes : final_recipes[m].id = UpgradeJavaVersionId

\* C11: Redundancy filter.  Whenever the combined list holds the fallback
\* UpgradeJavaVersion transformation and a transformation whose id is in the
\* known redundant set, no step of the apply loop (run, apply, ...) is ever
\* invoked for the redundant one, whatever its position; once the loop has
\* passed it the log holds FILTERED naming it.
C11_RedundantNeverRuns ==
    \A k \in DOMAIN final_recipes :
        (HasFallbackUpgrade /\ final_recipes[k].id \in redundant_list) =>
            /\ \A q \in DOMAIN trace : trace[q].i # k
            /\ ~(i = k /\ pc \in {"run", "apply", "stage", "diff", "commit",
                                  "rebuild", "rollback"})
            /\ (i > k \/ pc \in {"summary", "summary_add", "summary_commit", "push"})
                  => Logged("FILTERED", final_recipes[k].id)

\* the redundant transformation stands before the upgrade the model suggested
\* itself; it was filtered, the upgrade was committed and the run succeeded
C11_Witness ==
    /\ Len(final_recipes) = 2
    /\ final_recipes[1].id = ChangeJavaVersionId
    /\ final_recipes[2].id = UpgradeJavaVersionId
    /\ Logged("FILTERED", ChangeJavaVersionId)
    /\ Step("commit", 2, TRUE, TRUE)
    /\ result.status = "SUCCESS"

----------------------------------------------------------------------------
(* C20 *)

\* git push was invoked (whatever its outcome)
PushInvoked == \E p \in DOMAIN trace : trace[p].op = "push"

\* the local branch holds the commit of a transformation whose rebuild failed
FailedBuildOnBranch ==
    \E p \in DOMAIN commits :
        /\ commits[p].kind = "code"
        /\ \E q \in DOMAIN trace :
              trace[q].op = "build" /\ trace[q].i = commits[p].i /\ ~trace[q].ok

\* a reset, stage, commit or apply command of the loop exited non-zero
LoopCommandFailed ==
    \E q \in DOMAIN trace :
        trace[q].op \in {"reset", "stage", "commit", "apply"} /\ ~trace[q].ok

\* C20: The push is never invoked while the local branch still holds a commit
\* of a transformation whose post-commit rebuild failed: when the loop went on
\* after a failed rebuild the reset had succeeded, and when the reset (or a
\* stage, commit or apply command) fails the run ends with ERROR and neither
\* invokes the push nor changes the remote.
C20_NoPushOfFailedBuild ==
    /\ (pc = "push" \/ PushInvoked) => ~FailedBuildOnBranch
    /\ \A k \in DOMAIN final_recipes :
          (Step("build", k, FALSE, FALSE) /\ (i > k \/ pc \in {"summary", "summary_add",
                                                  "summary_commit", "push"}))
              => Step("reset", k, TRUE, TRUE)
    /\ LoopCommandFailed =>
          /\ pc = "done"
          /\ result.status = "ERROR"
          /\ ~PushInvoked
          /\ remote = <<>>

\* a rebuild failed, its commit was reset, and the push was then invoked
C20_Witness ==
    /\ \E k \in DOMAIN final_recipes :
          Step("build", k, FALSE, FALSE) /\ Step("reset", k, TRUE, TRUE)
    /\ PushInvoked
    /\ result.status = "SUCCESS"

----------------------------------------------------------------------------
(* C18 *)

\* the run fell out of the apply loop (the summary is written right after it)
LoopFinished == summary_doc # <<>>

\* positions of the summary commit on the local branch
SummaryCommits == { p \in DOMAIN commits : commits[p].kind = "summary" }

\* what the summary has to list: the goal and the id of every entry of the list
ListedInSummary ==
    /\ Len(summary_doc) = 2
    /\ summary_doc[1] = goal
    /\ Len(summary_doc[2]) = Len(final_recipes)
    /\ \A k \in DOMAIN final_recipes : summary_doc[2][k] = final_recipes[k].id

\* the summary commit step comes after every step of the loop and before the push
SummaryCommitPlaced ==
    \E p \in DOMAIN trace :
        /\ trace[p] = Ev("summary_commit", 0, TRUE, TRUE)
        /\ \A q \in DOMAIN trace : trace[q].i > 0 => q < p
        /\ \A q \in DOMAIN trace : trace[q].op = "push" => p < q

----------------------------------------------------------------------------
(* C12 *)

\* the goal text mentions Java: "java" occurs in it, whatever the case
MentionsJava(g) ==
    \E k \in DOMAIN g : g[k] \in {"java", "Java", "JAVA", "javascript"}

\* the version the goal text names: 17 before 21, else the default 11
InferredVersion(g) ==
    IF \E k \in DOMAIN g : g[k] = "17" THEN "17"
    ELSE IF \E k \in DOMAIN g : g[k] = "21" THEN "21"
    ELSE "11"

\* a transformation of the UpgradeJavaVersion kind
OfUpgradeKind(id) ==
    id[Len(id)] \in {"UpgradeJavaVersion", "UpgradeJavaVersionCustom"}

\* the list the recommendation gave (empty when it could not be parsed)
AiSuggested == IF ai_resp_raw.kind = "json" THEN ai_resp_raw.recipes ELSE <<>>

\* the recommendation step has run and did not raise
Recommended == ai_resp_raw.kind \notin {"none", "raise"}

InjectedUpgrade(version) ==
    [id |-> UpgradeJavaVersionId, options |-> << <<<<"version">>, version>> >>]

----------------------------------------------------------------------------
(* C13 *)

\* the transformation the options were last normalized for (0: none yet)
NormalizedFor ==
    IF \E p \in DOMAIN trace : trace[p].op = "run"
    THEN trace[CHOOSE p \in DOMAIN trace :
                  /\ trace[p].op = "run"
                  /\ \A q \in DOMAIN trace : trace[q].op = "run" => q <= p].i
    ELSE 0

\* the id is of the org.openrewrite.maven family
InMavenFamily(id) == Len(id) >= 3 /\ SubSeq(id, 1, 3) = <<"org", "openrewrite", "maven">>

\* the id is an exact-upgrade id
IsExactUpgrade(id) ==
    id[Len(id)] \in {"UpgradeParentVersion", "UpgradeDependencyVersion"}

\* the key the claim gives for raw key k on this id
ClaimedKey(id, k) ==
    IF InMavenFamily(id) /\ k = <<"version">> THEN <<"newVersion">>
    ELSE IF IsExactUpgrade(id) /\ Len(k) > 0 /\ k[Len(k)] = "Pattern"
    THEN SubSeq(k, 1, Len(k) - 1)
    ELSE k

\* C13 as stated: Option normalization.  For the id and raw options of the
\* transformation run last, every raw item whose claimed key no other raw
\* item shares is in the options under that key with its value: "version"
\* becomes "newVersion" exactly on an org.openrewrite.maven id, a key ending
\* in "Pattern" on an exact-upgrade id loses that suffix only, any other key
\* is unchanged; the options hold these keys and the default keys only, and a
\* default keeps its value only where no raw item claims its key.
C13_OptionsNormalizedAsClaimed ==
    NormalizedFor # 0 =>
        LET id == final_recipes[NormalizedFor].id
            raw == final_recipes[NormalizedFor].options
            claimed == { ClaimedKey(id, raw[n][1]) : n \in DOMAIN raw }
        IN  /\ DOMAIN options = DOMAIN DefaultOptions \cup claimed
            /\ \A n \in DOMAIN raw :
                  (\A m \in DOMAIN raw :
                      m # n => ClaimedKey(id, raw[m][1]) # ClaimedKey(id, raw[n][1]))
                  => options[ClaimedKey(id, raw[n][1])] = raw[n][2]
            /\ \A k \in DOMAIN DefaultOptions \ claimed : options[k] = DefaultOptions[k]

----------------------------------------------------------------------------
(* C14 *)

\* the status changes a job record may undergo
StatusMoves ==
    { <<"NONE", "PENDING">>, <<"PENDING", "RUNNING">>,
      <<"RUNNING", "COMPLETED">>, <<"RUNNING", "FAILED">> }

\* the step just taken is a step of the thread of job j and of no other
StepOfThread(j) ==
    /\ tpc'[j] # tpc[j]
    /\ \A k \in JobIds \ {j} : tpc'[k] = tpc[k]

\* C14: Each job record, once created, is written only by steps of the thread
\* executing that job, and its status moves PENDING -> RUNNING ->
\* {COMPLETED, FAILED}: never backward, never past RUNNING, never again once
\* it is COMPLETED or FAILED, however the threads of the jobs interleave.
C14_OneWriterMonotoneStatus ==
    [][\A j \in JobIds :
          /\ (jobs[j].status # "NONE" /\ jobs'[j] # jobs[j]) => StepOfThread(j)
          /\ jobs'[j].status # jobs[j].status
                => <<jobs[j].status, jobs'[j].status>> \in StatusMoves]_vars

\* two jobs ran at once and went through their statuses: one ended COMPLETED,
\* the other FAILED
C14_Witness ==
    \E a, b \in JobIds :
        /\ a # b
        /\ jobs[a].status = "COMPLETED"
        /\ jobs[b].status = "FAILED"
        /\ tpc[a] = "done"
        /\ tpc[b] = "done"

----------------------------------------------------------------------------
(* C15 *)

\* C15: A job whose pipeline returned a result with status ERROR is never
\* COMPLETED and is FAILED once its task is over; a job is COMPLETED only
\* when its function returned a result that is not an ERROR result and did
\* not raise.
C15_ErrorResultFails ==
    \A j \in JobIds :
        /\ local[j] = "ERROR" =>
              /\ jobs[j].status \in {"RUNNING", "FAILED"}
              /\ tpc[j] = "done" => jobs[j].status = "FAILED"
        /\ jobs[j].status = "COMPLETED" => local[j] \in {"SUCCESS", "text"}
        /\ (tpc[j] = "done" /\ local[j] \in {"SUCCESS", "text"})
              => jobs[j].status = "COMPLETED"

\* a full-automation job whose pipeline returned ERROR is over and FAILED,
\* next to one that is COMPLETED with SUCCESS
C15_Witness ==
    \E a, b \in JobIds :
        /\ jobs[a].type = "full_automate" /\ local[a] = "ERROR"
        /\ tpc[a] = "done" /\ jobs[a].status = "FAILED"
        /\ local[b] = "SUCCESS" /\ jobs[b].status = "COMPLETED"

----------------------------------------------------------------------------
(* C16 *)

\* C16: Whatever get_job_status returns for a full-automation job, a
\* COMPLETED record holds the SUCCESS result and a FAILED record holds the
\* error message and the ERROR result with the log.
C16_TerminalRecordHasPayload ==
    seen.type = "full_automate" =>
        /\ seen.status = "COMPLETED" => seen.result = "SUCCESS"
        /\ seen.status = "FAILED" => seen.error = "set" /\ seen.result = "ERROR"

----------------------------------------------------------------------------
(* C17 *)

\* positions of a thread between the creation of its descriptor and the
\* finally block of _sync_repo
DescriptorHeld == {"sync_cmd", "cleanup", "cleanup_raising"}

\* positions of a thread after _sync_repo has returned or raised
AfterSync == {"work", "push", "ret", "error", "error_only", "result", "done"}

\* C17: Once _sync_repo has returned or failed, the descriptor of that sync
\* no longer exists, whether the sync command succeeded or failed; syncs with
\* different session tokens have different descriptor paths, and from its
\* creation until its own cleanup a descriptor exists whatever the other
\* syncs clean up.
C17_DescriptorCleanedAndPrivate ==
    /\ \A j \in JobIds : tpc[j] \in AfterSync => TempCsv(j) \notin files
    /\ \A a, b \in JobIds : a # b => TempCsv(a) # TempCsv(b)
    /\ \A j \in JobIds : tpc[j] \in DescriptorHeld => TempCsv(j) \in files

\* one sync is over, its descriptor gone, while the descriptor of another
\* sync, still running, exists
C17_Witness ==
    \E a, b \in JobIds :
        /\ a # b
        /\ tpc[a] \in {"work", "push"}
        /\ TempCsv(a) \notin files
        /\ tpc[b] \in DescriptorHeld
        /\ TempCsv(b) \in files

----------------------------------------------------------------------------
(* C19 *)

\* the step just taken is the forced clean of run b on an existing workspace
ForcedClean(b) ==
    /\ tpc[b] = "clean"
    /\ tpc'[b] = "mkdir"
    /\ force[b]
    /\ ws.exists

\* C19: Concurrent runs on one workspace are not isolated.  The forced clean
\* of a run deletes the workspace directory with every checkout in it,
\* whichever runs are between their sync and their push.
C19_ForcedCleanDeletesAll ==
    [][\A b \in JobIds : ForcedClean(b) => (~ws'.exists /\ ws'.repos = {})]_vars

\* run a has synced and is between its sync and its push; the forced clean of
\* run b has just deleted the workspace, and a's checkout with it
C19_Witness ==
    \E a, b \in JobIds :
        /\ a # b
        /\ tpc[a] \in {"work", "push"}
        /\ a \notin ws.repos
        /\ tpc[b] = "mkdir"
        /\ force[b]
        /\ ~ws.exists

----------------------------------------------------------------------------
(* C21 *)

\* transformation k was visited by the loop: filtered, or taken to the run step
Visited(k) ==
    \/ \E p \in DOMAIN trace : trace[p].op = "run" /\ trace[p].i = k
    \/ Logged("FILTERED", final_recipes[k].id)

\* the run steps were invoked in list order, none twice, and no
\* transformation before the current one (none at all once the loop is over)
\* was left out
VisitedOnceInOrder ==
    /\ \A p, q \in DOMAIN trace :
          (trace[p].op = "run" /\ trace[q].op = "run" /\ p < q) => trace[p].i < trace[q].i
    /\ \A k \in DOMAIN final_recipes : (pc = "loop" /\ k < i) => Visited(k)
    /\ \A k \in DOMAIN final_recipes : LoopFinished => Visited(k)

\* the pipeline has a result exactly when it is over, and it is SUCCESS or ERROR
OneResultAtEnd ==
    /\ result.status \in {"NONE", "SUCCESS", "ERROR"}
    /\ pc = "done" <=> result.status \in {"SUCCESS", "ERROR"}

\* C21: With every command returning or failing and the thread of the job
\* scheduled fairly, every submitted job eventually is COMPLETED or FAILED:
\* the apply loop visits the transformations of the list once each, in list
\* order; a pipeline that was entered eventually returns, with exactly one
\* SUCCESS or ERROR result; and no job stays PENDING or RUNNING for ever.
C21_EveryJobEnds ==
    /\ [](VisitedOnceInOrder /\ OneResultAtEnd)
    /\ \A j \in JobIds :
          (tpc[j] = "clean") ~> (pc = "done" /\ tpc[j] \in {"ret", "error", "result", "done"})
    /\ \A j \in JobIds :
          (jobs[j].status \in {"PENDING", "RUNNING"})
              ~> (jobs[j].status \in {"COMPLETED", "FAILED"})

\* a full-automation job went through a list of two transformations, both
\* taken to the run step, and ended COMPLETED with the SUCCESS result
C21_Witness ==
    /\ jobs[1].type = "full_automate"
    /\ jobs[1].status = "COMPLETED"
    /\ jobs[1].result = "SUCCESS"
    /\ tpc[1] = "done"
    /\ Len(final_recipes) = 2
    /\ \E p, q \in DOMAIN trace :
          trace[p].op = "run" /\ trace[p].i = 1 /\ trace[q].op = "run" /\ trace[q].i = 2

====
